---- MODULE Spec2Model ----
(***************************************************************************)
(* Image hosting service (src/app.js): an Express application that keeps   *)
(* uploaded blobs in the uploads directory and their records in one JSON   *)
(* file, images_meta.json.  Every handler is a chain of promise callbacks: *)
(* the model has one action for the synchronous entry of a request and one *)
(* action for the completion of each file operation, which runs the        *)
(* callback that the handler attached to it.                               *)
(***************************************************************************)
EXTENDS Integers, Sequences, FiniteSets, TLC

(***************************************************************************)
(* Bounds of the model.                                                    *)
(***************************************************************************)
\* Requests in flight at once.
MaxReq == 2
\* Requests sent in a run.
MaxSent == 4
\* Files in one upload.
MaxFiles == 2
\* Files stored in a run.
MaxStored == 2
\* Last value of the clock.
MaxTime == 2
\* Records in a list that is saved and loaded back.
MaxList == 3
\* Requests sent in a run in which every file operation completes.
MaxSentFair == 2

(***************************************************************************)
(* Program constants.                                                      *)
(***************************************************************************)
maxCount == 10
fileSize == 10485760

VARIABLES
  metaFile,    \* content of images_meta.json
  uploadsDir,  \* names of the files in the uploads directory
  nextUuid,    \* how many values uuidv4() has returned, plus one
  now,         \* the clock
  reqs,        \* the requests being handled
  resp,        \* the request answered by the last step, with its response
  nsent,       \* history: how many requests have been sent
  deleted      \* history: ids whose DELETE /api/images/:id was answered success

vars == <<metaFile, uploadsDir, nextUuid, now, reqs, resp, nsent, deleted>>

Reqs == 1..MaxReq

(***************************************************************************)
(* Values.                                                                 *)
(***************************************************************************)
\* uuidv4(): the n-th value the generator returns; values never repeat.
uuidv4(n) == "u" \o ToString(n)

\* new Date().toISOString() at clock value t.
toISOString(t) == "T" \o ToString(t)

\* The i-th file a client attaches to an upload: originalname, mimetype, size.
ClientFile(i) ==
  IF i % 2 = 1
  THEN [originalname |-> "cat.png", mimetype |-> "image/png", size |-> 2048]
  ELSE [originalname |-> "dog.jpg", mimetype |-> "image/jpeg", size |-> 4096]

\* A file that is no image, and an image over the size limit.
TextFile == [originalname |-> "notes.txt", mimetype |-> "text/plain", size |-> 1024]

BigFile == [originalname |-> "big.png", mimetype |-> "image/png", size |-> fileSize + 1]

\* path.extname(file.originalname)
extname(name) ==
  CASE name = "cat.png" -> ".png"
    [] name = "dog.jpg" -> ".jpg"
    [] name = "notes.txt" -> ".txt"
    [] name = "big.png" -> ".png"
    [] OTHER -> ""

Hosts == {"localhost:3000"}

\* host.includes("zeabur.app") || includes("herokuapp.com") || includes("vercel.app")
IsDeployHost(host) == host \in {"app.zeabur.app", "app.herokuapp.com", "app.vercel.app"}

NodeEnv == "development"

getBaseUrl(proto, host) ==
  IF IsDeployHost(host) \/ NodeEnv = "production"
  THEN "https://" \o host
  ELSE proto \o "://" \o host

(***************************************************************************)
(* JSON text of the metadata file.  A record in memory is a function from  *)
(* its property names to values; the text is the list of objects, each the *)
(* list of its <<key, value>> pairs in property order.  A property whose   *)
(* object does not have it is not written.                                 *)
(***************************************************************************)
KeyOrder == <<"id", "filename", "originalName", "mimetype", "size", "url",
              "uploadTime", "updatedTime">>

RECURSIVE PairsOf(_, _)
PairsOf(obj, i) ==
  IF i > Len(KeyOrder) THEN <<>>
  ELSE IF KeyOrder[i] \in DOMAIN obj
       THEN <<  <<KeyOrder[i], obj[KeyOrder[i]]>>  >> \o PairsOf(obj, i + 1)
       ELSE PairsOf(obj, i + 1)

\* Mutant of JSONstringify: the objects are written last first.
JSONstringifyReversed(data) ==
  [text |-> [i \in 1..Len(data) |-> PairsOf(data[Len(data) + 1 - i], 1)]]

\* JSON.stringify(data, null, 2)
JSONstringify(data) ==
  [text |-> [i \in 1..Len(data) |-> PairsOf(data[i], 1)]]

\* The content of a file whose write was cut short.
Truncated == [text |-> <<>>, cut |-> TRUE]

IsJSON(content) == "cut" \notin DOMAIN content

ObjectOf(pairs) ==
  [k \in {pairs[i][1] : i \in 1..Len(pairs)} |->
     LET i == CHOOSE j \in 1..Len(pairs) : pairs[j][1] = k IN pairs[i][2]]

JSONparse(content) ==
  [i \in 1..Len(content.text) |-> ObjectOf(content.text[i])]

\* readMeta(): the parsed list, or [] when reading or parsing throws.
readMeta(content, readOk) ==
  IF readOk /\ IsJSON(content) THEN JSONparse(content) ELSE <<>>

(***************************************************************************)
(* List helpers (Array.prototype).                                         *)
(***************************************************************************)
\* images.findIndex(img => img.id === id); 0 stands for -1.
findIndex(images, id) ==
  IF \E i \in 1..Len(images) : images[i].id = id
  THEN CHOOSE i \in 1..Len(images) :
         /\ images[i].id = id
         /\ \A j \in 1..(i - 1) : images[j].id # id
  ELSE 0

\* Mutant of splice: removes the element after the one found.
spliceNext(images, index) ==
  [i \in 1..(IF index < Len(images) THEN Len(images) - 1 ELSE Len(images)) |->
     IF i <= index THEN images[i] ELSE images[i + 1]]

\* images.splice(index, 1)
splice(images, index) ==
  [i \in 1..(Len(images) - 1) |-> IF i < index THEN images[i] ELSE images[i + 1]]

includes(ids, id) == \E i \in 1..Len(ids) : ids[i] = id

IdsOf(images) == {images[i].id : i \in 1..Len(images)}

(***************************************************************************)
(* Routing.  Express tries the routes in the order of their registration   *)
(* and runs the first whose method and pattern match; no handler of this   *)
(* application calls next().                                               *)
(***************************************************************************)
Routes ==
  << [method |-> "GET",    pattern |-> <<>>,                        handler |-> "home"],
     [method |-> "POST",   pattern |-> <<"upload">>,                handler |-> "upload"],
     [method |-> "GET",    pattern |-> <<"health">>,                handler |-> "health"],
     [method |-> "GET",    pattern |-> <<"manage">>,                handler |-> "manage"],
     [method |-> "GET",    pattern |-> <<"api", "images">>,         handler |-> "listAll"],
     [method |-> "DELETE", pattern |-> <<"api", "images", ":id">>,  handler |-> "deleteOne"],
     [method |-> "DELETE", pattern |-> <<"api", "images", "batch">>, handler |-> "deleteBatch"],
     [method |-> "DELETE", pattern |-> <<"api", "images", "clear-all">>, handler |-> "clearAll"],
     [method |-> "PUT",    pattern |-> <<"api", "images", ":id">>,  handler |-> "updateName"] >>

MatchPath(pattern, path) ==
  /\ Len(pattern) = Len(path)
  /\ \A i \in 1..Len(pattern) : pattern[i] = ":id" \/ pattern[i] = path[i]

MatchRoute(route, method, path) ==
  route.method = method /\ MatchPath(route.pattern, path)

Dispatch(method, path) ==
  IF \E i \in 1..Len(Routes) : MatchRoute(Routes[i], method, path)
  THEN Routes[CHOOSE i \in 1..Len(Routes) :
                /\ MatchRoute(Routes[i], method, path)
                /\ \A j \in 1..(i - 1) : ~MatchRoute(Routes[j], method, path)].handler
  ELSE "none"

\* No body-parsing middleware is registered (no app.use(express.json())),
\* so req.body of a request that does not pass through multer is undefined.
BodyParserRegistered == FALSE

ReqBody(sent) ==
  IF BodyParserRegistered THEN [defined |-> TRUE, value |-> sent]
  ELSE [defined |-> FALSE]

(***************************************************************************)
(* Requests.  A request is idle until the client sends it, then runs the   *)
(* handler the router gives it; pc names the file operation the handler is *)
(* waiting for.                                                            *)
(***************************************************************************)
NoProps == <<>>

NoBody == [pending |-> TRUE]

IdleReq ==
  [pc |-> "idle", method |-> "", path |-> <<>>, sent |-> NoProps, handler |-> "",
   attached |-> <<>>, files |-> <<>>, baseUrl |-> "", id |-> "", ids |-> <<>>, originalName |-> "",
   loaded |-> <<>>, images |-> <<>>, removed |-> <<>>, newImages |-> <<>>,
   data |-> JSONstringify(<<>>), unlinks |-> {},
   status |-> 0, body |-> NoBody,
   \* history of the request: responses sent
   answers |-> 0,
   \* history of the request: file operations started and their outcomes
   reads |-> 0, writes |-> 0, wrote |-> "no", unlinked |-> {}, unlinkFailed |-> {},
   stored |-> <<>>]

\* res.status(status).json(body)
Respond(q, status, body) ==
  [q EXCEPT !.pc = "done", !.status = status, !.body = body, !.answers = @ + 1]

\* A handler that throws synchronously: Express passes the error on; the only
\* error middleware (line 334) is registered before the /api routes, so the
\* default handler answers 500.
Throw(q, name) == Respond(q, 500, [error |-> name])

\* readMeta() is called: the handler waits for the read.
StartRead(q) == [q EXCEPT !.pc = "reading", !.reads = @ + 1]

\* writeMeta(data) is called: the handler waits for the write.
StartWrite(q, data) ==
  [q EXCEPT !.pc = "writing", !.data = JSONstringify(data), !.writes = @ + 1]

\* !ids || !Array.isArray(ids) || ids.length === 0
BadIds(body) ==
  \/ "ids" \notin DOMAIN body
  \/ ~body.ids.isArray
  \/ Len(body.ids.items) = 0

\* !originalName
NoName(body) ==
  \/ "originalName" \notin DOMAIN body
  \/ body.originalName = ""

\* Mutant of errorMiddleware: every error is answered 500.
errorMiddleware500(q, error) == Respond(q, 500, [error |-> error.message])

\* The error middleware registered after /upload: it answers the errors multer
\* passes on.
errorMiddleware(q, error) ==
  IF error.isMulterError /\ error.code = "LIMIT_FILE_SIZE"
  THEN Respond(q, 400, [error |-> "FileTooLarge"])
  ELSE Respond(q, 500, [error |-> error.message])

\* The synchronous part of each handler, up to its first file operation.
Enter(q) ==
  CASE q.handler = "upload" ->
         IF Len(q.files) = 0 THEN Respond(q, 400, [error |-> "NoFiles"])
         ELSE StartRead(q)
    [] q.handler = "listAll" -> StartRead(q)
    [] q.handler = "deleteOne" -> StartRead([q EXCEPT !.id = q.path[3]])
    [] q.handler = "deleteBatch" ->
         IF ~ReqBody(q.sent).defined THEN Throw(q, "TypeError")
         ELSE IF BadIds(ReqBody(q.sent).value)
              THEN Respond(q, 400, [error |-> "NoIds"])
              ELSE StartRead([q EXCEPT !.ids = ReqBody(q.sent).value.ids.items])
    [] q.handler = "clearAll" -> StartRead(q)
    [] q.handler = "updateName" ->
         IF ~ReqBody(q.sent).defined THEN Throw(q, "TypeError")
         ELSE IF NoName(ReqBody(q.sent).value)
              THEN Respond(q, 400, [error |-> "NoName"])
              ELSE StartRead([q EXCEPT !.id = q.path[3],
                                        !.originalName = ReqBody(q.sent).value.originalName])
    [] OTHER -> Respond(q, 404, [error |-> "CannotRoute"])

(***************************************************************************)
(* The callbacks that run when readMeta() resolves.                        *)
(***************************************************************************)
\* The record /upload builds for one stored file.
imageData(file, id, baseUrl, t) ==
  [id |-> id,
   filename |-> file.filename,
   originalName |-> file.originalname,
   mimetype |-> file.mimetype,
   size |-> file.size,
   url |-> baseUrl \o "/images/" \o file.filename,
   uploadTime |-> toISOString(t)]

\* Mutant of uploadRecords: one id generated before the loop, for every file.
uploadRecordsOneId(files, baseUrl, uuid, t) ==
  [i \in 1..Len(files) |-> imageData(files[i], uuidv4(uuid), baseUrl, t)]

\* for (const file of req.files) { ... images.push(imageData); newImages.push(imageData) }
uploadRecords(files, baseUrl, uuid, t) ==
  [i \in 1..Len(files) |-> imageData(files[i], uuidv4(uuid + i - 1), baseUrl, t)]

\* Mutant of uploadThen: the loaded records get the time of this upload.
uploadThenRestamp(q, images, uuid, t) ==
  LET newImages == uploadRecords(q.files, q.baseUrl, uuid, t)
      restamped == [i \in 1..Len(images) |->
                      [images[i] EXCEPT !.uploadTime = toISOString(t)]]
  IN StartWrite([q EXCEPT !.images = restamped \o newImages, !.newImages = newImages],
                restamped \o newImages)

\* Mutant of uploadThen: the new records are put in front of the loaded list.
uploadThenUnshift(q, images, uuid, t) ==
  LET newImages == uploadRecords(q.files, q.baseUrl, uuid, t)
  IN StartWrite([q EXCEPT !.images = newImages \o images, !.newImages = newImages],
                newImages \o images)

uploadThen(q, images, uuid, t) ==
  LET newImages == uploadRecords(q.files, q.baseUrl, uuid, t)
  IN StartWrite([q EXCEPT !.images = images \o newImages, !.newImages = newImages],
                images \o newImages)

\* Mutant of listAllThen: the list is answered newest first.
listAllThenReversed(q, images) ==
  Respond(q, 200, [json |-> [i \in 1..Len(images) |-> images[Len(images) + 1 - i]]])

\* res.json(images)
listAllThen(q, images) == Respond(q, 200, [json |-> images])

\* fs.unlink(path.join(uploadsDir, filename)) is started for each name.
StartUnlinks(q, names) ==
  [q EXCEPT !.unlinks = names, !.unlinked = @ \cup names]

\* Mutant of deleteOneThen: no return after the 404, the handler goes on to
\* save the list and answers again.
deleteOneThenAnswersTwice(q, images) ==
  LET imageIndex == findIndex(images, q.id)
  IN IF imageIndex = 0
     THEN StartWrite(Respond([q EXCEPT !.images = images], 404, [error |-> "NotFound"]),
                     images)
     ELSE StartWrite(
            StartUnlinks([q EXCEPT !.images = splice(images, imageIndex),
                                   !.removed = <<images[imageIndex]>>],
                         {images[imageIndex].filename}),
            splice(images, imageIndex))

\* Mutant of deleteOneThen: the record is removed, its file is left.
deleteOneThenNoUnlink(q, images) ==
  LET imageIndex == findIndex(images, q.id)
  IN IF imageIndex = 0
     THEN Respond(q, 404, [error |-> "NotFound"])
     ELSE StartWrite([q EXCEPT !.images = splice(images, imageIndex),
                               !.removed = <<images[imageIndex]>>],
                     splice(images, imageIndex))

\* Mutant of deleteOneThen: no return when the id is not found, the list is
\* saved as loaded.
deleteOneThenNoReturn(q, images) ==
  LET imageIndex == findIndex(images, q.id)
  IN IF imageIndex = 0
     THEN StartWrite([q EXCEPT !.images = images], images)
     ELSE StartWrite(
            StartUnlinks([q EXCEPT !.images = splice(images, imageIndex),
                                   !.removed = <<images[imageIndex]>>],
                         {images[imageIndex].filename}),
            splice(images, imageIndex))

deleteOneThen(q, images) ==
  LET imageIndex == findIndex(images, q.id)
  IN IF imageIndex = 0
     THEN Respond(q, 404, [error |-> "NotFound"])
     ELSE StartWrite(
            StartUnlinks([q EXCEPT !.images = splice(images, imageIndex),
                                   !.removed = <<images[imageIndex]>>],
                         {images[imageIndex].filename}),
            splice(images, imageIndex))

\* images.filter(img => ids.includes(img.id)) and its complement
filterIn(images, ids) == SelectSeq(images, LAMBDA img : includes(ids, img.id))

filterOut(images, ids) == SelectSeq(images, LAMBDA img : ~includes(ids, img.id))

FilenamesOf(images) == {images[i].filename : i \in 1..Len(images)}

\* Promise.all(deletePromises).then(() => writeMeta(data)): the write starts
\* once every unlink has settled.
AwaitUnlinks(q, names, data) ==
  IF names = {} THEN StartWrite(q, data)
  ELSE [StartUnlinks(q, names) EXCEPT !.pc = "unlinking", !.data = JSONstringify(data)]

deleteBatchThen(q, images) ==
  LET imagesToDelete == filterIn(images, q.ids)
      remainingImages == filterOut(images, q.ids)
  IN IF Len(imagesToDelete) = 0
     THEN Respond(q, 404, [error |-> "NoneFound"])
     ELSE AwaitUnlinks([q EXCEPT !.images = remainingImages, !.removed = imagesToDelete],
                       FilenamesOf(imagesToDelete), remainingImages)

clearAllThen(q, images) ==
  AwaitUnlinks([q EXCEPT !.images = images, !.removed = images],
               FilenamesOf(images), <<>>)

updateNameThen(q, images, t) ==
  LET imageIndex == findIndex(images, q.id)
  IN IF imageIndex = 0
     THEN Respond(q, 404, [error |-> "NotFound"])
     ELSE LET old == images[imageIndex]
              new == [k \in DOMAIN old \cup {"updatedTime"} |->
                        CASE k = "originalName" -> q.originalName
                          [] k = "updatedTime" -> toISOString(t)
                          [] OTHER -> old[k]]
              updated == [images EXCEPT ![imageIndex] = new]
          IN StartWrite([q EXCEPT !.images = updated, !.newImages = <<new>>], updated)

readMetaThen(q0, images, uuid, t) ==
  LET q == [q0 EXCEPT !.loaded = images]
  IN CASE q.handler = "upload" -> uploadThen(q, images, uuid, t)
       [] q.handler = "listAll" -> listAllThen(q, images)
       [] q.handler = "deleteOne" -> deleteOneThen(q, images)
       [] q.handler = "deleteBatch" -> deleteBatchThen(q, images)
       [] q.handler = "clearAll" -> clearAllThen(q, images)
       [] q.handler = "updateName" -> updateNameThen(q, images, t)

\* The callback that runs when writeMeta() resolves.
writeMetaThen(q) ==
  CASE q.handler = "upload" ->
         Respond(q, 200, [success |-> TRUE, count |-> Len(q.files), images |-> q.newImages])
    [] q.handler = "deleteOne" -> Respond(q, 200, [success |-> TRUE])
    [] q.handler = "deleteBatch" ->
         Respond(q, 200, [success |-> TRUE, deletedCount |-> Len(q.removed)])
    [] q.handler = "clearAll" ->
         Respond(q, 200, [success |-> TRUE, count |-> Len(q.removed)])
    [] q.handler = "updateName" ->
         Respond(q, 200, [success |-> TRUE, image |-> q.newImages[1]])

\* Mutant of writeMetaCatch: the rejection of the write is answered like its
\* success.
writeMetaCatchSuccess(q) == writeMetaThen(q)

\* .catch((error) => res.status(500).json(...)) after a rejected writeMeta
writeMetaCatch(q) == Respond(q, 500, [error |-> "WriteFailed"])

\* Mutant of unlinkSettled: the rejection of an unlink reaches the handler's
\* catch, which answers 500.
unlinkSettledThrows(q, name, ok) ==
  LET q1 == [q EXCEPT !.unlinks = @ \ {name},
                      !.unlinkFailed = IF ok THEN @ ELSE @ \cup {name}]
  IN IF ~ok /\ q1.pc # "done" THEN Respond(q1, 500, [error |-> "UnlinkFailed"])
     ELSE IF q1.pc = "unlinking" /\ q1.unlinks = {}
          THEN [q1 EXCEPT !.pc = "writing", !.writes = @ + 1]
          ELSE q1

\* An unlink settles; its own then/catch only log.
unlinkSettled(q, name, ok) ==
  LET q1 == [q EXCEPT !.unlinks = @ \ {name},
                      !.unlinkFailed = IF ok THEN @ ELSE @ \cup {name}]
  IN IF q1.pc = "unlinking" /\ q1.unlinks = {}
     THEN [q1 EXCEPT !.pc = "writing", !.writes = @ + 1]
     ELSE q1

(***************************************************************************)
(* State and actions.                                                      *)
(***************************************************************************)
\* The list a read of the metadata file returns now.
Persisted == readMeta(metaFile, TRUE)

Init ==
  /\ metaFile = JSONstringify(<<>>)
  /\ uploadsDir = {}
  /\ nextUuid = 1
  /\ now = 1
  /\ reqs = [r \in Reqs |-> IdleReq]
  /\ resp = IdleReq
  /\ nsent = 0
  /\ deleted = {}

\* A new request takes the first free slot.
CanSend(r) ==
  /\ nsent < MaxSent
  /\ reqs[r].pc = "idle"
  /\ \A s \in 1..(r - 1) : reqs[s].pc # "idle"

\* Request r goes on as q.  An answer is recorded in resp; an answered request
\* stays only while file operations it started are pending.
Continue(r, q) ==
  /\ reqs' = [reqs EXCEPT ![r] = IF q.pc = "done" /\ q.unlinks = {} THEN IdleReq ELSE q]
  /\ resp' = IF q.pc = "done" /\ reqs[r].pc # "done" THEN q ELSE IdleReq

Arrive(method, path, sent, files) ==
  Enter([IdleReq EXCEPT !.method = method, !.path = path, !.sent = sent,
                        !.files = files, !.handler = Dispatch(method, path)])

\* multer's diskStorage: each accepted file is written to the uploads
\* directory under a fresh uuid plus the extension of its original name.
storage(files, uuid) ==
  [i \in 1..Len(files) |->
     [originalname |-> files[i].originalname, mimetype |-> files[i].mimetype,
      size |-> files[i].size,
      filename |-> uuidv4(uuid + i - 1) \o extname(files[i].originalname)]]

\* The lists of files a client attaches: images only, or images followed by
\* one file that multer rejects.
GoodFiles(n) == [i \in 1..n |-> ClientFile(i)]

FileLists ==
  {GoodFiles(n) : n \in 0..MaxFiles}
    \cup {Append(GoodFiles(n), bad) : n \in 0..(MaxFiles - 1), bad \in {TextFile, BigFile}}

allowedTypes == {"image/jpeg", "image/jpg", "image/png", "image/gif", "image/webp"}

\* allowedTypes.includes(file.mimetype)
fileFilter(file) == file.mimetype \in allowedTypes

\* limits.fileSize: the file has more bytes than the limit.
OverLimit(file) == file.size > fileSize

\* upload.array("images", 10) takes the files in order and stops at the first
\* one that the filter rejects or that goes over the size limit; 0 when it
\* takes them all.
FirstRejected(files) ==
  LET bad == {i \in 1..Len(files) : ~fileFilter(files[i]) \/ OverLimit(files[i])}
  IN IF bad = {} THEN 0 ELSE CHOOSE i \in bad : \A j \in bad : i <= j

NoError == [isMulterError |-> FALSE, code |-> "", message |-> ""]

\* The error multer passes to next(): the Error of fileFilter, or its own
\* MulterError for the size limit.
multerError(files) ==
  LET k == FirstRejected(files)
  IN IF k = 0 THEN NoError
     ELSE IF ~fileFilter(files[k])
          THEN [isMulterError |-> FALSE, code |-> "", message |-> "OnlyImages"]
          ELSE [isMulterError |-> TRUE, code |-> "LIMIT_FILE_SIZE",
                message |-> "FileTooLarge"]

\* How many files storage.filename was called for: the filter runs before it,
\* the size limit is met while the named file is being written.
Named(files) ==
  LET k == FirstRejected(files)
  IN IF k = 0 THEN Len(files)
     ELSE IF ~fileFilter(files[k]) THEN k - 1 ELSE k

\* Files stored so far, counting those whose records are still to be built.
Reserved ==
  LET waiting == {r \in Reqs : reqs[r].handler = "upload" /\ reqs[r].pc = "reading"}
      RECURSIVE Sum(_)
      Sum(S) == IF S = {} THEN 0
                ELSE LET r == CHOOSE x \in S : TRUE IN Len(reqs[r].files) + Sum(S \ {r})
  IN Sum(waiting)

Stored == (nextUuid - 1 + Reserved) \div 2

\* POST /upload
SendUpload(r, files, host) ==
  /\ CanSend(r)
  /\ Len(files) <= maxCount
  /\ Stored + Len(files) <= MaxStored
  /\ IF FirstRejected(files) = 0
     THEN LET stored == storage(files, nextUuid)
              q == Arrive("POST", <<"upload">>, NoProps, stored)
          IN /\ Continue(r, [q EXCEPT !.attached = files,
                                      !.baseUrl = getBaseUrl("http", host)])
             /\ uploadsDir' = uploadsDir \cup FilenamesOf(stored)
     ELSE \* multer removes the files of the request it has stored and passes
          \* the error on; the handler of /upload is not called.
          /\ Continue(r, errorMiddleware([IdleReq EXCEPT !.method = "POST",
                                                        !.path = <<"upload">>,
                                                        !.attached = files,
                                                        !.handler = "multer"],
                                        multerError(files)))
          /\ uploadsDir' = uploadsDir
  /\ nextUuid' = nextUuid + Named(files)
  /\ nsent' = nsent + 1
  /\ UNCHANGED <<metaFile, now, deleted>>

\* GET /api/images
SendList(r) ==
  /\ CanSend(r)
  /\ Continue(r, Arrive("GET", <<"api", "images">>, NoProps, <<>>))
  /\ nsent' = nsent + 1
  /\ UNCHANGED <<metaFile, uploadsDir, nextUuid, now, deleted>>

\* The ids uuidv4() has returned for records, and other last path segments.
KnownIds ==
  UNION {IdsOf(reqs[r].images) : r \in Reqs} \cup IdsOf(Persisted) \cup deleted

Segments == KnownIds \cup {"nonexistent", "batch", "clear-all"}

IdLists ==
  {<<>>, <<"nonexistent">>} \cup {<<a, a, "nonexistent">> : a \in IdsOf(Persisted)}

DeleteBodies(seg) ==
  IF seg = "batch"
  THEN {NoProps, [ids |-> [isArray |-> FALSE, items |-> <<>>]]}
         \cup {[ids |-> [isArray |-> TRUE, items |-> l]] : l \in IdLists}
  ELSE {NoProps}

\* DELETE /api/images/<seg>
SendDelete(r, seg, sent) ==
  /\ CanSend(r)
  /\ Continue(r, Arrive("DELETE", <<"api", "images", seg>>, sent, <<>>))
  /\ nsent' = nsent + 1
  /\ UNCHANGED <<metaFile, uploadsDir, nextUuid, now, deleted>>

PutBodies == {NoProps, [originalName |-> ""], [originalName |-> "new.png"]}

\* PUT /api/images/<seg>
SendPut(r, seg, sent) ==
  /\ CanSend(r)
  /\ Continue(r, Arrive("PUT", <<"api", "images", seg>>, sent, <<>>))
  /\ nsent' = nsent + 1
  /\ UNCHANGED <<metaFile, uploadsDir, nextUuid, now, deleted>>

\* The handlers that read the clock (new Date()) in the callback of readMeta.
ReadsClock(q) == q.handler \in {"upload", "updateName"}

\* readMeta() settles at time t and its callback runs.
ReadDone(r, readOk, t) ==
  /\ IF ReadsClock(reqs[r]) THEN t >= now ELSE t = now
  /\ now' = t
  /\ Continue(r, readMetaThen([reqs[r] EXCEPT !.stored = Persisted],
                              readMeta(metaFile, readOk), nextUuid, t))
  /\ nextUuid' = IF reqs[r].handler = "upload" THEN nextUuid + Len(reqs[r].files)
                 ELSE nextUuid
  /\ UNCHANGED <<metaFile, uploadsDir, nsent, deleted>>

\* fs.readFile resolves and JSON.parse returns.
ReadMetaOk(r, t) ==
  /\ reqs[r].pc = "reading"
  /\ ReadDone(r, TRUE, t)

\* Mutant of ReadMetaErr: readMeta has no try/catch, the rejection reaches the
\* catch of the handler, which answers 500.
ReadMetaErrRaises(r, t) ==
  /\ reqs[r].pc = "reading"
  /\ t = now
  /\ Continue(r, Respond([reqs[r] EXCEPT !.stored = Persisted], 500,
                         [error |-> "ReadFailed"]))
  /\ UNCHANGED <<metaFile, uploadsDir, nextUuid, now, nsent, deleted>>

\* fs.readFile rejects or JSON.parse throws: readMeta returns [].
ReadMetaErr(r, t) ==
  /\ reqs[r].pc = "reading"
  /\ ReadDone(r, FALSE, t)

\* Mutant of WriteMetaOk: the data replaces the content only when the store
\* still holds the list the request loaded.
WriteMetaOkIfUnchanged(r) ==
  /\ reqs[r].pc = "writing"
  /\ metaFile' = IF Persisted = reqs[r].loaded THEN reqs[r].data ELSE metaFile
  /\ Continue(r, writeMetaThen([reqs[r] EXCEPT !.wrote = "ok"]))
  /\ deleted' = IF reqs[r].handler = "deleteOne" THEN deleted \cup {reqs[r].id}
                ELSE deleted
  /\ UNCHANGED <<uploadsDir, nextUuid, now, nsent>>

\* fs.writeFile resolves: the file holds the data, the success callback runs.
\* The write replaces the content in one step (save is atomic for its caller).
WriteMetaOk(r) ==
  /\ reqs[r].pc = "writing"
  /\ metaFile' = reqs[r].data
  /\ Continue(r, writeMetaThen([reqs[r] EXCEPT !.wrote = "ok"]))
  /\ deleted' = IF reqs[r].handler = "deleteOne" THEN deleted \cup {reqs[r].id}
                ELSE deleted
  /\ UNCHANGED <<uploadsDir, nextUuid, now, nsent>>

\* Mutant of WriteMetaErr: the catch of /upload removes the files of the
\* request from the uploads directory.
WriteMetaErrCleanup(r, cut) ==
  /\ reqs[r].pc = "writing"
  /\ metaFile' = IF cut THEN Truncated ELSE metaFile
  /\ Continue(r, writeMetaCatch([reqs[r] EXCEPT !.wrote = "failed"]))
  /\ uploadsDir' = IF reqs[r].handler = "upload"
                   THEN uploadsDir \ FilenamesOf(reqs[r].files) ELSE uploadsDir
  /\ UNCHANGED <<nextUuid, now, nsent, deleted>>

\* fs.writeFile rejects: the file is as it was (the open failed) or cut short
\* (it was opened, which truncates it, and the write failed).
WriteMetaErr(r, cut) ==
  /\ reqs[r].pc = "writing"
  /\ metaFile' = IF cut THEN Truncated ELSE metaFile
  /\ Continue(r, writeMetaCatch([reqs[r] EXCEPT !.wrote = "failed"]))
  /\ UNCHANGED <<uploadsDir, nextUuid, now, nsent, deleted>>

\* fs.unlink resolves: the blob is gone.
UnlinkOk(r, name) ==
  /\ name \in reqs[r].unlinks
  /\ name \in uploadsDir
  /\ uploadsDir' = uploadsDir \ {name}
  /\ Continue(r, unlinkSettled(reqs[r], name, TRUE))
  /\ UNCHANGED <<metaFile, nextUuid, now, nsent, deleted>>

\* fs.unlink rejects: the blob was absent, or could not be removed.
UnlinkErr(r, name) ==
  /\ name \in reqs[r].unlinks
  /\ Continue(r, unlinkSettled(reqs[r], name, FALSE))
  /\ UNCHANGED <<metaFile, uploadsDir, nextUuid, now, nsent, deleted>>

Next ==
  \/ \E r \in Reqs, files \in FileLists, host \in Hosts : SendUpload(r, files, host)
  \/ \E r \in Reqs : SendList(r)
  \/ \E r \in Reqs, seg \in Segments : \E sent \in DeleteBodies(seg) : SendDelete(r, seg, sent)
  \/ \E r \in Reqs, seg \in Segments, sent \in PutBodies : SendPut(r, seg, sent)
  \/ \E r \in Reqs, t \in 1..MaxTime : ReadMetaOk(r, t)
  \/ \E r \in Reqs, t \in 1..MaxTime : ReadMetaErr(r, t)
  \/ \E r \in Reqs : WriteMetaOk(r)
  \/ \E r \in Reqs, cut \in BOOLEAN : WriteMetaErr(r, cut)
  \/ \E r \in Reqs : \E name \in reqs[r].unlinks : UnlinkOk(r, name)
  \/ \E r \in Reqs : \E name \in reqs[r].unlinks : UnlinkErr(r, name)

Spec == Init /\ [][Next]_vars

(***************************************************************************)
(* The metadata store on its own: writeMeta(data) for any list of records, *)
(* then readMeta().                                                        *)
(***************************************************************************)
\* The records /upload makes of two files, and what PUT /api/images/:id makes
\* of a record.
UploadedRecords ==
  uploadRecords(storage(GoodFiles(2), 1), getBaseUrl("http", "localhost:3000"), 3, 1)

RenamedRecord(image) ==
  updateNameThen([IdleReq EXCEPT !.id = image.id, !.originalName = "new.png"],
                 <<image>>, 2).newImages[1]

ValidRecords ==
  {UploadedRecords[i] : i \in 1..2} \cup {RenamedRecord(UploadedRecords[i]) : i \in 1..2}

RecordLists == UNION {[1..n -> ValidRecords] : n \in 0..MaxList}

\* await fs.writeFile(metaFile, JSON.stringify(data, null, 2)) resolves.
writeMeta(data) ==
  /\ metaFile' = JSONstringify(data)
  /\ resp' = [IdleReq EXCEPT !.pc = "saved", !.images = data, !.writes = 1, !.wrote = "ok"]
  /\ UNCHANGED <<uploadsDir, nextUuid, now, reqs, nsent, deleted>>

\* readMeta() is called after it and resolves.
readMetaBack ==
  /\ resp.pc = "saved"
  /\ resp' = [resp EXCEPT !.pc = "loaded", !.reads = 1,
                          !.loaded = readMeta(metaFile, TRUE)]
  /\ UNCHANGED <<metaFile, uploadsDir, nextUuid, now, reqs, nsent, deleted>>

NextRoundTrip ==
  \/ \E data \in RecordLists : writeMeta(data)
  \/ readMetaBack

SpecRoundTrip == Init /\ [][NextRoundTrip]_vars

(***************************************************************************)
(* The server with one request at a time and no failing file operation: a  *)
(* request is sent when the one before it and every file operation it      *)
(* started have completed.                                                 *)
(***************************************************************************)
NoneInFlight == \A r \in Reqs : reqs[r].pc = "idle"

NextSequential ==
  \/ NoneInFlight /\ \E r \in Reqs, files \in FileLists, host \in Hosts :
                       SendUpload(r, files, host)
  \/ NoneInFlight /\ \E r \in Reqs : SendList(r)
  \/ NoneInFlight /\ \E r \in Reqs, seg \in Segments :
                       \E sent \in DeleteBodies(seg) : SendDelete(r, seg, sent)
  \/ NoneInFlight /\ \E r \in Reqs, seg \in Segments, sent \in PutBodies :
                       SendPut(r, seg, sent)
  \/ \E r \in Reqs, t \in 1..MaxTime : ReadMetaOk(r, t)
  \/ \E r \in Reqs : WriteMetaOk(r)
  \/ \E r \in Reqs : \E name \in reqs[r].unlinks : UnlinkOk(r, name)

SpecSequential == Init /\ [][NextSequential]_vars

(***************************************************************************)
(* The server when every file operation that was started completes: a read *)
(* or a write of the metadata file, or an unlink, that is pending settles  *)
(* one way or the other.                                                   *)
(***************************************************************************)
ReadSettles(r) == \E t \in 1..MaxTime : ReadMetaOk(r, t) \/ ReadMetaErr(r, t)

WriteSettles(r) == WriteMetaOk(r) \/ \E cut \in BOOLEAN : WriteMetaErr(r, cut)

UnlinkSettles(r) == \E name \in reqs[r].unlinks : UnlinkOk(r, name) \/ UnlinkErr(r, name)

MaySend == nsent < MaxSentFair

NextFair ==
  \/ MaySend /\ \E r \in Reqs, files \in FileLists, host \in Hosts :
                  SendUpload(r, files, host)
  \/ MaySend /\ \E r \in Reqs : SendList(r)
  \/ MaySend /\ \E r \in Reqs, seg \in Segments :
                  \E sent \in DeleteBodies(seg) : SendDelete(r, seg, sent)
  \/ MaySend /\ \E r \in Reqs, seg \in Segments, sent \in PutBodies :
                  SendPut(r, seg, sent)
  \/ \E r \in Reqs, t \in 1..MaxTime : ReadMetaOk(r, t)
  \/ \E r \in Reqs, t \in 1..MaxTime : ReadMetaErr(r, t)
  \/ \E r \in Reqs : WriteMetaOk(r)
  \/ \E r \in Reqs, cut \in BOOLEAN : WriteMetaErr(r, cut)
  \/ \E r \in Reqs : \E name \in reqs[r].unlinks : UnlinkOk(r, name)
  \/ \E r \in Reqs : \E name \in reqs[r].unlinks : UnlinkErr(r, name)

SpecFair ==
  /\ Init /\ [][NextFair]_vars
  /\ \A r \in Reqs : /\ WF_vars(ReadSettles(r))
                      /\ WF_vars(WriteSettles(r))
                      /\ WF_vars(UnlinkSettles(r))

(***************************************************************************)
(* The management page as the only client of the server, with no failing   *)
(* file operation: uploads fill the store, then the page deletes the       *)
(* images selected in its list.                                            *)
(***************************************************************************)
\* The selections of the page: ids of its list, which GET /api/images gave
\* it, in the order of Array.from(selectedImages).
Selections ==
  {sel \in UNION {[1..n -> IdsOf(Persisted)] : n \in 1..MaxReq} :
     \A i, j \in 1..Len(sel) : i # j => sel[i] # sel[j]}

\* deleteSelected(): one fetch DELETE /api/images/<id> for each selected id,
\* none awaited before the next is sent.
deleteSelected(selectedImages) ==
  /\ NoneInFlight
  /\ nsent + Len(selectedImages) <= MaxSent
  /\ reqs' = [r \in Reqs |->
               IF r <= Len(selectedImages)
               THEN Arrive("DELETE", <<"api", "images", selectedImages[r]>>, NoProps, <<>>)
               ELSE reqs[r]]
  /\ resp' = IdleReq
  /\ nsent' = nsent + Len(selectedImages)
  /\ UNCHANGED <<metaFile, uploadsDir, nextUuid, now, deleted>>

NextPage ==
  \/ NoneInFlight /\ \E r \in Reqs, files \in FileLists, host \in Hosts :
                       SendUpload(r, files, host)
  \/ \E selectedImages \in Selections : deleteSelected(selectedImages)
  \/ \E r \in Reqs, t \in 1..MaxTime : ReadMetaOk(r, t)
  \/ \E r \in Reqs : WriteMetaOk(r)
  \/ \E r \in Reqs : \E name \in reqs[r].unlinks : UnlinkOk(r, name)

SpecPage == Init /\ [][NextPage]_vars

(***************************************************************************)
(* Properties.                                                             *)
(***************************************************************************)
Answered(handler, status) ==
  resp.pc = "done" /\ resp.handler = handler /\ resp.status = status

\* Request r saves in this step a list that still holds the record id and
\* that it loaded for another purpose than deleting that record.
StaleSave(r, id) ==
  /\ reqs[r].pc = "writing"
  /\ ~(reqs[r].handler = "deleteOne" /\ reqs[r].id = id)
  /\ id \in IdsOf(JSONparse(reqs[r].data))
  /\ metaFile' = reqs[r].data

\* C1 as stated: once DELETE /api/images/:id has answered success, no later
\* read of the metadata store (here: the list GET /api/images answers with)
\* returns a record with that id, whatever requests overlap the delete.
C1_DeletedNeverReturned ==
  Answered("listAll", 200) => IdsOf(resp.body.json) \cap deleted = {}

\* C1 as amended: the save of a successful DELETE /api/images/:id leaves the
\* store without the record, and the record comes back into the store only by
\* the save of another mutating request whose loaded list still holds it (the
\* lost update); without such a save every later read is without the record.
C1_DeletedUnlessStaleSave ==
  [][\A id \in deleted' :
       (id \in IdsOf(Persisted') /\ ~(id \in deleted /\ id \in IdsOf(Persisted)))
         => \E r \in Reqs : StaleSave(r, id)]_vars

\* C1 witness: after a successful delete, a list request is answered with the
\* other record only.
C1_Witness ==
  /\ Answered("listAll", 200)
  /\ deleted # {}
  /\ resp.body.json # <<>>
  /\ IdsOf(resp.body.json) \cap deleted = {}

\* The request answered last was sent as DELETE /api/images/<seg>.
DeleteRequest(seg) ==
  resp.pc = "done" /\ resp.method = "DELETE" /\ resp.path = <<"api", "images", seg>>

\* The request answered last was sent as PUT /api/images/<id>.
PutRequest == resp.pc = "done" /\ resp.method = "PUT"

\* The ids array the client sent, empty when it sent none.
SentIds ==
  IF "ids" \in DOMAIN resp.sent /\ resp.sent.ids.isArray THEN resp.sent.ids.items
  ELSE <<>>

\* C2: a DELETE /api/images/batch whose ids match at least one record of the
\* pre-operation list L answers success with deletedCount = the number of
\* records of L whose id is in ids, and leaves L without those records, the
\* others in their order.
C2_BatchDelete ==
  (DeleteRequest("batch") /\ filterIn(resp.stored, SentIds) # <<>>)
    => /\ resp.status = 200
       /\ "deletedCount" \in DOMAIN resp.body
       /\ resp.body.deletedCount = Len(filterIn(resp.stored, SentIds))
       /\ Persisted = filterOut(resp.stored, SentIds)

\* C3: a DELETE /api/images/clear-all that no other request overlaps answers
\* success with the prior record count and leaves the empty list.
C3_ClearAll ==
  (DeleteRequest("clear-all") /\ \A r \in Reqs : reqs[r].pc = "idle")
    => /\ resp.status = 200
       /\ Persisted = <<>>
       /\ "count" \in DOMAIN resp.body
       /\ resp.body.count = Len(resp.stored)

\* The upload answered last saved once, the list L followed by one new record
\* for each of its files, in the order of the files, and answered with them.
UploadAppends(L) ==
  /\ Len(resp.files) \in 1..maxCount
  /\ resp.writes = 1
  /\ Len(resp.newImages) = Len(resp.files)
  /\ \A i \in 1..Len(resp.files) :
       /\ resp.newImages[i].filename = resp.files[i].filename
       /\ resp.newImages[i].originalName = resp.files[i].originalname
       /\ resp.newImages[i].mimetype = resp.files[i].mimetype
       /\ resp.newImages[i].size = resp.files[i].size
  /\ Persisted = L \o resp.newImages
  /\ resp.body.images = resp.newImages

C5_UniqueIds ==
  \A i, j \in 1..Len(Persisted) : i # j => Persisted[i].id # Persisted[j].id

\* C5 witness: the store holds two records.
C5_Witness == Len(Persisted) >= 2

\* C6: a PUT /api/images/<id> with a non-empty originalName and the id of a
\* record answers success with the record, whose originalName is the new name
\* and which has an updatedTime.
C6_UpdateName ==
  (PutRequest /\ ~NoName(resp.sent) /\ resp.path[3] \in IdsOf(Persisted))
    => LET i == findIndex(Persisted, resp.path[3])
       IN /\ resp.status = 200
          /\ Persisted[i].originalName = resp.sent.originalName
          /\ "updatedTime" \in DOMAIN Persisted[i]
          /\ resp.body.image = Persisted[i]

\* C7: a DELETE /api/images/:id whose id matches no record of the loaded list
\* answers 404, starts no write of the metadata file and no unlink, and the
\* step that answers changes neither the metadata file nor the blob set.
C7_DeleteOneNotFound ==
  [][(resp'.pc = "done" /\ resp'.handler = "deleteOne" /\ resp' # resp
        /\ resp'.id \notin IdsOf(resp'.loaded))
       => /\ resp'.status = 404
          /\ resp'.writes = 0
          /\ resp'.unlinked = {}
          /\ metaFile' = metaFile
          /\ uploadsDir' = uploadsDir]_vars

\* C7 witness: a delete of an unknown id is answered 404 while the store
\* holds a record.
C7_Witness ==
  /\ Answered("deleteOne", 404)
  /\ resp.id = "nonexistent"
  /\ Persisted # <<>>

\* C8: a DELETE /api/images/batch with ids missing, not an array or empty
\* answers 400 without reading or writing the store; with ids of which none
\* matches a record it answers 404; neither writes the store or unlinks.
C8_BatchErrors ==
  DeleteRequest("batch")
    => /\ BadIds(resp.sent)
            => resp.status = 400 /\ resp.reads = 0 /\ resp.writes = 0
                 /\ resp.unlinked = {}
       /\ (~BadIds(resp.sent) /\ filterIn(resp.stored, SentIds) = <<>>)
            => resp.status = 404 /\ resp.writes = 0 /\ resp.unlinked = {}

\* C9: a PUT /api/images/<id> with an empty or absent originalName answers 400
\* before the store is read; with a name and an id of no record it answers
\* 404; neither writes the store.
C9_UpdateErrors ==
  PutRequest
    => /\ NoName(resp.sent)
            => resp.status = 400 /\ resp.reads = 0 /\ resp.writes = 0
       /\ (~NoName(resp.sent) /\ resp.path[3] \notin IdsOf(Persisted))
            => resp.status = 404 /\ resp.writes = 0

\* C10: a DELETE /api/images/:id that found its record and whose unlink failed
\* goes on to the write; unless the write itself fails it answers success
\* and the persisted list is without the record.
C10_BlobFailureTolerated ==
  /\ \A r \in Reqs :
       (reqs[r].handler = "deleteOne" /\ reqs[r].unlinkFailed # {}
          /\ reqs[r].pc # "done") => reqs[r].pc = "writing"
  /\ (resp.pc = "done" /\ resp.handler = "deleteOne" /\ resp.unlinkFailed # {}
        /\ resp.wrote # "failed")
       => /\ resp.status = 200
          /\ resp.wrote = "ok"
          /\ resp.id \notin IdsOf(Persisted)

\* C10 witness: a delete is answered success after its unlink failed because
\* the blob was absent.
C10_Witness ==
  /\ Answered("deleteOne", 200)
  /\ resp.unlinkFailed # {}
  /\ resp.unlinkFailed \cap uploadsDir = {}

\* The records of the pre-operation list that the request answered last asks
\* to delete: those with an id in ids (batch), or all of them (clear-all).
Matching ==
  IF resp.path = <<"api", "images", "batch">> THEN filterIn(resp.stored, SentIds)
  ELSE resp.stored

\* C11: a DELETE /api/images/batch or /clear-all with matching records, whose
\* save did not fail, has attempted an unlink for the blob of every matching
\* record whether or not one of them failed, has removed every matching
\* record from the persisted list, and answers success with the number of
\* records removed.
C11_BlobFailureInBatch ==
  ((DeleteRequest("batch") \/ DeleteRequest("clear-all"))
      /\ Matching # <<>> /\ resp.wrote # "failed")
    => /\ resp.unlinked = FilenamesOf(Matching)
       /\ resp.status = 200
       /\ IdsOf(Persisted) \cap IdsOf(Matching) = {}
       /\ Len(resp.removed) = Len(Matching)

\* The request answered last was sent as POST /upload.
UploadRequest == resp.pc = "done" /\ resp.method = "POST" /\ resp.path = <<"upload">>

\* C12: an upload with a file whose MIME type is not in the allow-list is
\* answered 400, creates no record and stores no blob.
C12_DisallowedType ==
  (UploadRequest /\ \E i \in 1..Len(resp.attached) : ~fileFilter(resp.attached[i]))
    => /\ resp.status = 400
       /\ resp.writes = 0
       /\ resp.newImages = <<>>
       /\ resp.files = <<>>

\* C13: the step that answers an upload with no files, or with images of
\* which one is over 10 MiB, answers 400; the request has read and written
\* nothing of the metadata store, has made no record, and the step changes
\* neither the metadata file nor the blob set.
C13_UploadRejected ==
  [][(resp'.pc = "done" /\ resp' # resp /\ resp'.method = "POST"
        /\ resp'.path = <<"upload">>
        /\ \/ resp'.attached = <<>>
           \/ /\ \A i \in 1..Len(resp'.attached) : fileFilter(resp'.attached[i])
              /\ \E i \in 1..Len(resp'.attached) : resp'.attached[i].size > 10 * 1024 * 1024)
       => /\ resp'.status = 400
          /\ resp'.reads = 0
          /\ resp'.writes = 0
          /\ resp'.newImages = <<>>
          /\ metaFile' = metaFile
          /\ uploadsDir' = uploadsDir]_vars

\* C13 witness: an upload of an image over the limit is answered 400 while
\* the store holds a record and another request is being handled.
C13_Witness ==
  /\ UploadRequest
  /\ resp.status = 400
  /\ Len(resp.attached) = 1
  /\ resp.attached[1].size > 10 * 1024 * 1024
  /\ Persisted # <<>>
  /\ \E r \in Reqs : reqs[r].pc = "writing"

\* C14: a DELETE /api/images/batch is processed by the batch handler and a
\* DELETE /api/images/clear-all by the clear-all handler, neither by the
\* handler of DELETE /api/images/:id.
C14_Dispatch ==
  /\ DeleteRequest("batch") => resp.handler = "deleteBatch"
  /\ DeleteRequest("clear-all") => resp.handler = "clearAll"

\* What the request answered last made of the list it loaded.
ResultOf(q) ==
  CASE q.handler = "upload" -> q.loaded \o q.newImages
    [] q.handler = "deleteOne" -> filterOut(q.loaded, <<q.id>>)
    [] OTHER -> q.loaded

\* C15: the save that completes last wins.  When a mutating request has
\* saved and answers success, the persisted list is what that request alone
\* made of the list it loaded, whatever other requests have saved since it
\* loaded; the effect of a request that saved in between is then missing.
C15_LastSaveWins ==
  (resp.pc = "done" /\ resp.wrote = "ok")
    => /\ resp.status = 200
       /\ Persisted = ResultOf(resp)

\* C15 witness: two DELETE /api/images/:id on different ids loaded the same
\* list and both answered success; the persisted list is that of the one
\* that saved last and still holds the record the other one deleted.
C15_Witness ==
  /\ Answered("deleteOne", 200)
  /\ \E r \in Reqs :
       /\ reqs[r].pc = "done"
       /\ reqs[r].handler = "deleteOne"
       /\ reqs[r].status = 200
       /\ reqs[r].id # resp.id
       /\ reqs[r].loaded = resp.loaded
       /\ reqs[r].wrote = "ok"
       /\ reqs[r].id \in IdsOf(Persisted)
  /\ resp.id \notin IdsOf(Persisted)
  /\ resp.wrote = "ok"

Mutating == {"upload", "deleteOne", "deleteBatch", "clearAll", "updateName"}

\* C16: a mutating request whose write of the metadata file failed is
\* answered 500, never success; it is answered in the step the write fails.
C16_WriteFailure ==
  /\ (resp.pc = "done" /\ resp.handler \in Mutating /\ resp.wrote = "failed")
       => resp.status = 500
  /\ \A r \in Reqs :
       (reqs[r].handler \in Mutating /\ reqs[r].wrote = "failed")
         => reqs[r].pc = "done" /\ reqs[r].status = 500

\* C16 witness: an upload is answered 500 after its write failed, while a
\* delete whose write failed has been answered 500 and its unlink is pending.
C16_Witness ==
  /\ Answered("upload", 500)
  /\ resp.wrote = "failed"
  /\ \E r \in Reqs :
       /\ reqs[r].handler = "deleteOne"
       /\ reqs[r].wrote = "failed"
       /\ reqs[r].status = 500

\* A request has had the callback of its readMeta() run.
HasLoaded(q) == q.reads > 0 /\ q.pc # "reading"

\* C17: readMeta() never raises: its caller gets the list the file holds, or
\* the empty list when the file cannot be read or parsed, and goes on as for
\* that list.  No request is answered 500 unless its write failed, and
\* GET /api/images is always answered success with the list it was given.
C17_ReadNeverRaises ==
  /\ \A r \in Reqs :
       HasLoaded(reqs[r]) => reqs[r].loaded \in {reqs[r].stored, <<>>}
  /\ (resp.pc = "done" /\ HasLoaded(resp))
       => /\ resp.loaded \in {resp.stored, <<>>}
          /\ resp.status = 500 => resp.wrote = "failed"
  /\ (resp.pc = "done" /\ resp.handler = "listAll")
       => /\ resp.status = 200
          /\ resp.body.json = resp.loaded
  /\ readMeta(Truncated, TRUE) = <<>>

\* C17 witness: GET /api/images is answered success with the empty list
\* because the read failed while the store holds a record.
C17_Witness ==
  /\ Answered("listAll", 200)
  /\ resp.body.json = <<>>
  /\ Persisted # <<>>

\* C18 as stated: GET /api/images answers exactly the list the metadata
\* store holds.
C18_ListReturnsPersisted ==
  Answered("listAll", 200) => resp.body.json = Persisted

\* C18 as amended: the step that answers GET /api/images answers success with
\* the list its load returned, unfiltered and in its order, which is the list
\* the store holds or the empty list when the read failed; the request writes
\* and unlinks nothing and the step changes neither the metadata file nor the
\* blob set.
C18_ListReturnsLoaded ==
  [][(resp'.pc = "done" /\ resp'.handler = "listAll" /\ resp' # resp)
       => /\ resp'.status = 200
          /\ resp'.body.json = resp'.loaded
          /\ resp'.loaded = Persisted \/ resp'.loaded = <<>>
          /\ resp'.writes = 0
          /\ resp'.unlinked = {}
          /\ metaFile' = metaFile
          /\ uploadsDir' = uploadsDir]_vars

\* C18 witness: GET /api/images is answered with the two records the store
\* holds.
C18_Witness ==
  /\ Answered("listAll", 200)
  /\ Len(resp.body.json) = 2
  /\ resp.body.json = Persisted

\* C19: for every list L of valid records, writeMeta(L) followed by
\* readMeta() with no write in between returns a list equal to L, the same
\* records in the same order.
C19_RoundTrip ==
  resp.pc = "loaded" => resp.loaded = resp.images

\* C19 witness: a list of three records, two of them different and one with
\* an updatedTime, has been saved and loaded back.
C19_Witness ==
  /\ resp.pc = "loaded"
  /\ Len(resp.images) = 3
  /\ resp.images[1] # resp.images[2]
  /\ "updatedTime" \in DOMAIN resp.images[3]
  /\ "updatedTime" \notin DOMAIN resp.images[1]

\* The place of an id in the sequence of the values uuidv4() has returned.
IssuedAt(id) == CHOOSE n \in 1..nextUuid : uuidv4(n) = id

\* C20: every persisted state lists its records in the order in which their
\* ids were issued.  Two records therefore stand in the same relative order
\* in every persisted state that holds both, whatever requests were
\* interleaved, and a new record, whose id is issued after those of the
\* loaded list, stands after all of them.
C20_NoReorder ==
  \A i, j \in 1..Len(Persisted) :
     i < j => IssuedAt(Persisted[i].id) < IssuedAt(Persisted[j].id)

\* C20 witness: the store holds the records of two uploads, the first of
\* which was deleted in between and came back with the save of the second.
C20_Witness ==
  /\ Len(Persisted) = 2
  /\ Persisted[1].id \in deleted
  /\ Persisted[1].uploadTime # Persisted[2].uploadTime

\* Every list of records there is: the persisted one, and those the requests
\* being handled and the request answered last have loaded, built or are
\* saving.
Copies ==
  {Persisted, resp.loaded, resp.images, JSONparse(resp.data)}
    \cup UNION {{reqs[r].loaded, reqs[r].images, JSONparse(reqs[r].data)} : r \in Reqs}

RecordsOf(lists) == UNION {{L[i] : i \in 1..Len(L)} : L \in lists}

Immutable == {"id", "filename", "mimetype", "size", "url", "uploadTime"}

\* C21: all copies of the record of an id, in the store and in the lists that
\* requests hold and will save, have the same filename, mimetype, size, url
\* and uploadTime; two copies differ in originalName only when one has been
\* renamed (it has an updatedTime); and no copy has an id that is still to be
\* issued.  A persisted state gets its records from these copies or fresh
\* from an upload, so the record of an id has the same values in every
\* persisted state it appears in.
C21_Immutable ==
  \A x, y \in RecordsOf(Copies) :
     /\ \E n \in 1..(nextUuid - 1) : uuidv4(n) = x.id
     /\ x.id = y.id
          => /\ \A k \in Immutable : x[k] = y[k]
             /\ x.originalName # y.originalName
                  => "updatedTime" \in DOMAIN x \cup DOMAIN y

\* C21 witness: an upload answers success at a later time than the record it
\* loaded was made; the record, deleted in between, is in the store again
\* with the values it was created with.
C21_Witness ==
  /\ Answered("upload", 200)
  /\ resp.loaded # <<>>
  /\ resp.loaded[1].id \in deleted
  /\ Persisted[1] = resp.loaded[1]
  /\ Persisted[1].uploadTime # Persisted[2].uploadTime

\* C22: an upload whose files were stored and whose save of the metadata
\* file failed answers 500; its files are in the uploads directory and no
\* persisted record has the filename of one of them.
C22_OrphanedBlobs ==
  (resp.pc = "done" /\ resp.handler = "upload" /\ resp.wrote = "failed")
    => /\ resp.status = 500
       /\ resp.files # <<>>
       /\ FilenamesOf(resp.files) \subseteq uploadsDir
       /\ FilenamesOf(resp.files) \cap FilenamesOf(Persisted) = {}

\* C22 witness: an upload of one file is answered 500 after its save failed
\* and left the metadata file as it was, with a record in it.
C22_Witness ==
  /\ Answered("upload", 500)
  /\ resp.wrote = "failed"
  /\ Len(resp.files) = 1
  /\ Persisted # <<>>
  /\ Cardinality(uploadsDir) > Len(Persisted)

\* C23: with one request at a time and no failing file operation, in every
\* state between two requests the names of the files in the uploads
\* directory are the filenames of the persisted records.
C23_BlobsMatchRecords ==
  NoneInFlight => uploadsDir = FilenamesOf(Persisted)

\* C23 witness: between two requests, after uploads and a delete, the store
\* holds a record and the uploads directory its file only.
C23_Witness ==
  /\ NoneInFlight
  /\ deleted # {}
  /\ Len(Persisted) = 1
  /\ uploadsDir = FilenamesOf(Persisted)
  /\ nsent = 3

\* The files the request answered last has removed: its unlinks that have
\* settled without failing.
UnlinkedBy(q) == (q.unlinked \ q.unlinks) \ q.unlinkFailed

\* C24: when a DELETE /api/images/... is answered 500 because its write of
\* the metadata file failed, the persisted list is the pre-operation list and
\* the request has removed no file that a record of that list refers to.
C24_FailedDeleteChangesNothing ==
  (resp.pc = "done" /\ resp.method = "DELETE" /\ resp.status = 500
      /\ resp.wrote = "failed")
    => /\ Persisted = resp.stored
       /\ UnlinkedBy(resp) \cap FilenamesOf(resp.stored) = {}

\* C25: the save of an upload or of a PUT /api/images/:id removes no record:
\* every record the store holds before the save is in it after the save,
\* also when the request's own load returned the empty list for a failed
\* read.
C25_SaveKeepsRecords ==
  [][(resp' # resp /\ resp'.pc = "done" /\ resp'.handler \in {"upload", "updateName"}
        /\ resp'.wrote = "ok")
       => IdsOf(Persisted) \subseteq IdsOf(Persisted')]_vars

\* C26: when a DELETE /api/images/... answers success, every unlink it
\* started has settled, and had settled when its write of the metadata file
\* started: no unlink of the request is pending while it writes or after its
\* response.
C26_UnlinksSettledFirst ==
  /\ (resp.pc = "done" /\ resp.method = "DELETE" /\ resp.status = 200)
       => resp.unlinks = {}
  /\ \A r \in Reqs :
       (reqs[r].method = "DELETE" /\ reqs[r].pc = "writing") => reqs[r].unlinks = {}
  /\ \A r \in Reqs :
       (reqs[r].method = "DELETE" /\ reqs[r].pc = "done" /\ reqs[r].status = 200)
         => reqs[r].unlinks = {}

\* A request that has been sent and not answered.
Unanswered(q) == q.pc \notin {"idle", "done"}

\* C27: every request gets exactly one response.  The request answered by a
\* step has been answered once; a request that has been answered is not
\* answered again while its file operations complete; and, every started
\* file operation completing, a request that waits for one is answered.
C27_ExactlyOneResponse ==
  /\ [][/\ resp'.pc = "done" => resp'.answers = 1
        /\ \A r \in Reqs :
             /\ reqs'[r].answers <= 1
             /\ Unanswered(reqs'[r]) => reqs'[r].answers = 0
             /\ (Unanswered(reqs[r]) /\ ~Unanswered(reqs'[r]))
                  => resp'.pc = "done" /\ resp'.answers = 1
             /\ reqs[r].pc = "done" => reqs'[r].pc \in {"done", "idle"}]_vars
  /\ \A r \in Reqs : Unanswered(reqs[r]) ~> ~Unanswered(reqs[r])

\* C27 witness: a delete is answered for the only time after its read and
\* its write, while its unlink is pending.
C27_Witness ==
  /\ Answered("deleteOne", 200)
  /\ resp.answers = 1
  /\ resp.reads = 1
  /\ resp.writes = 1
  /\ resp.unlinks # {}

\* C28: when deleteSelected() has finished, every request it sent being
\* answered, none of the ids whose request was answered success is in the
\* metadata store (with no failing file operation these are all the
\* selected ids, which the page then drops from its list).
C28_SelectedAreGone ==
  (\A r \in Reqs : ~Unanswered(reqs[r])) => deleted \cap IdsOf(Persisted) = {}

====
